---- MODULE Spec2Model ----
(***************************************************************************)
(* Ingestion pipeline of air-rag-backend: DocumentsService (upload with    *)
(* content-hash dedup, detached processDocument pipeline, delete,          *)
(* reprocess) and PineconeService (replicated upsert / delete over the     *)
(* configured indexes).                                                    *)
(*                                                                         *)
(* Every action is one suspension-to-suspension slice of an async          *)
(* function: the effect of the operation that was awaited, followed by the *)
(* synchronous code that runs up to the point where the next awaited       *)
(* operation is issued.                                                    *)
(***************************************************************************)
EXTENDS Integers, Sequences, FiniteSets, TLC

(***************************************************************************)
(* Bounds of the model                                                     *)
(***************************************************************************)
MaxDocs == 2
MaxRequests == 2
MaxCalls == 2
MaxChunks == 2
NumUsers == 2
NumBytes == 2

DocIds == 1..MaxDocs
RunIds == 1..MaxRequests
Users == 1..NumUsers
Bytes == 1..NumBytes

(***************************************************************************)
(* Values                                                                  *)
(***************************************************************************)
NullHash == 0
NullId == 0
NullMsg == "<null>"
Undefined == "<undefined>"
NullPath == <<"null", 0>>

\* the messages an exception raised inside the pipeline may carry:
\* a text, the empty string, or no message property at all
ExcMsgs == {"boom", "", Undefined}

\* PINECONE_INDEX_NAME / PINECONE_INDEX_NAME_AIR, in the insertion order of
\* the `indexes` object that every PineconeService method iterates
Indexes == <<"air-multy", "air">>
NumIndexes == Len(Indexes)

\* crypto.createHash('sha256').update(file.buffer).digest('hex')
Sha256(b) == 1000 + b

\* path.join(uploadPath, `${Date.now()}-${decodedFilename}`)
OrigPath(d) == <<"orig", d>>

\* path.join(uploadPath, `${documentId}-text.txt`)
TextPath(d) == <<"text", d>>

\* `${documentId}_chunk_${i}`
PineconeId(d, i) == <<d, i>>

NoDoc ==
  [exists |-> FALSE, fileHash |-> NullHash, status |-> "none",
   errorMessage |-> NullMsg, path |-> NullPath, textFilePath |-> NullPath,
   assistantFileId |-> NullId, userId |-> 0]

\* a request handler that is suspended at an await (quiet is history: no
\* pipeline of the document was in flight when a delete was accepted)
Call(op, pc, req, u, d) ==
  [op |-> op, pc |-> pc, req |-> req, user |-> u, doc |-> d, bytes |-> 0,
   snap |-> NoDoc, ids |-> {}, k |-> 0, quiet |-> FALSE]

NoPipe ==
  [pc |-> "none", doc |-> 0, bytes |-> 0, asst |-> NullId,
   chunks |-> <<>>, k |-> 0, msg |-> Undefined, failedAt |-> "none"]

Paths == {OrigPath(d) : d \in DocIds} \cup {TextPath(d) : d \in DocIds}
NoFile == 0

VecIds == DocIds \X (0..(MaxChunks - 1))
NoText == <<"none", 0, 0>>
NoVec == [text |-> NoText, totalChunks |-> 0]

NoLast == [op |-> "none", doc |-> 0, byOwner |-> FALSE, result |-> "none", status |-> "none"]

NoInput == [fn |-> "none"]
NoOutput == [fn |-> "none"]

VARIABLES
  docs,        \* documents table: DocIds -> row (exists = FALSE: no row)
  chunks,      \* chunks table: set of rows
  files,       \* upload directory: path -> file content (NoFile: absent)
  index,       \* remote indexes: index name -> (vector id -> record)
  calls,       \* request handlers in flight (upload / delete / reprocess)
  pipes,       \* processDocument invocations, by run
  nextId,      \* next document id to be generated
  nReq,        \* number of requests accepted so far (a run carries the
               \* number of the request that started it)
  owner,       \* history: the user each inserted document was created for
  last,        \* the response of the request that the last step completed
               \* (NoLast when the step completed none)
  input,       \* the arguments of a call of a pure method (NoInput: the
               \* services run and no method is called in isolation)
  output       \* the value that call returned (NoOutput before it returns)

vars == <<docs, chunks, files, index, calls, pipes, nextId, nReq, owner, last,
          input, output>>

(***************************************************************************)
(* Repositories and stores                                                 *)
(***************************************************************************)
\* a dedup lookup that only sees documents whose processing has finished
FindByHash_ReadyOnly(h) ==
  {d \in DocIds : docs[d].exists /\ docs[d].fileHash = h /\ docs[d].status = "ready"}

\* documentRepository.findOne({ where: { fileHash } })
FindByHash(h) == {d \in DocIds : docs[d].exists /\ docs[d].fileHash = h}

\* a documents table without the unique index on the fingerprint
UniqueFileHashViolated_NoIndex(h) == FALSE

\* the unique index idx_documents_file_hash / @Column({ unique: true }):
\* an INSERT of a row with fingerprint h is refused when a row carries h
UniqueFileHashViolated(h) == \E d \in DocIds : docs[d].exists /\ docs[d].fileHash = h

\* a lookup by id alone
getDocument_AnyUser(d, u) == docs[d].exists

\* documentRepository.findOne({ where: { id: documentId, userId } })
getDocument(d, u) == docs[d].exists /\ docs[d].userId = u

\* chunkRepository.find({ where: { documentId } })
ChunksOf(d) == {c \in chunks : c.documentId = d}

\* documentRepository.update(documentId, { status, errorMessage }): an
\* undefined errorMessage is skipped by the update, the column keeps its value;
\* an update of a row that does not exist changes nothing
updateDocumentStatus(tbl, d, status, errorMessage) ==
  IF ~tbl[d].exists THEN tbl
  ELSE [tbl EXCEPT ![d].status = status,
                   ![d].errorMessage =
                      IF errorMessage = Undefined THEN @ ELSE errorMessage]

\* namespace.upsertRecords(vector) on one index: records are keyed by id
UpsertRecords(ix, d, list) ==
  [v \in VecIds |->
     IF v[1] = d /\ v[2] < Len(list)
     THEN [text |-> list[v[2] + 1], totalChunks |-> Len(list)]
     ELSE ix[v]]

\* namespace.deleteMany(ids) on one index: absent ids are ignored
DeleteMany(ix, ids) == [v \in VecIds |-> IF v \in ids THEN NoVec ELSE ix[v]]

\* geminiService.semanticChunking(text, 1000): the chunk list the external
\* model returns for the text of file content b (MaxChunks chunks)
GeminiChunks(b) == [i \in 1..MaxChunks |-> <<"gemini", b, i>>]

\* this.semanticChunking(text, chunkSize, 0.1): deterministic in the text; the
\* text of file content b is taken to hold b over-long paragraphs
FallbackChunks(b) ==
  [i \in 1..(IF b < MaxChunks THEN b ELSE MaxChunks) |-> <<"manual", b, i>>]

\* a splitIntoChunks without the catch: the failure of Gemini is raised
splitIntoChunksOn_NoFallback(b, geminiOk) ==
  [threw |-> ~geminiOk, list |-> GeminiChunks(b)]

\* splitIntoChunks on the text of file content b: the Gemini chunk list, or
\* when the Gemini call fails the list of this.semanticChunking(text,
\* chunkSize, 0.1); nothing is raised
splitIntoChunksOn(b, geminiOk) ==
  [threw |-> FALSE, list |-> IF geminiOk THEN GeminiChunks(b) ELSE FallbackChunks(b)]

\* the outcomes of splitIntoChunks: the Gemini call succeeds or fails
splitIntoChunks(b) == {splitIntoChunksOn(b, ok) : ok \in BOOLEAN}

\* chunk entities that take the contents from the end of the list
ChunkEntities_Reversed(d, list, r) ==
  {[documentId |-> d, content |-> list[Len(list) - i], chunkIndex |-> i,
    pineconeId |-> PineconeId(d, i), run |-> r] : i \in 0..(Len(list) - 1)}

\* chunkRepository.create({ documentId, content, chunkIndex, pineconeId })
\* for every chunk of the list (the rows of run r)
ChunkEntities(d, list, r) ==
  {[documentId |-> d, content |-> list[i + 1], chunkIndex |-> i,
    pineconeId |-> PineconeId(d, i), run |-> r] : i \in 0..(Len(list) - 1)}

(***************************************************************************)
(* Bookkeeping of the model                                                *)
(***************************************************************************)
\* a request can be accepted: a handler is free and the budget not used up
CanAccept == Cardinality(calls) < MaxCalls /\ nReq < MaxRequests

\* the response of a completed request: the operation, the document it names
\* (the existing one in a conflict), whether the caller is the user the
\* document was created for, the result and the status of the returned record
Outcome(op, d, u, result, status) ==
  [op |-> op, doc |-> d, byOwner |-> (owner[d] = u), result |-> result, status |-> status]

\* a request refused by its first lookup
Refused(op, d, u, result) ==
  [op |-> op, doc |-> IF result = "conflict" THEN d ELSE 0,
   byOwner |-> (result # "conflict" /\ owner[d] = u), result |-> result, status |-> "none"]

InFlight(d) == {r \in RunIds : pipes[r].doc = d /\ pipes[r].pc \notin {"none", "done"}}

Done(r) == [NoPipe EXCEPT !.pc = "done", !.doc = pipes[r].doc]

Fail(r, msg, failedAt) ==
  [NoPipe EXCEPT !.pc = "catch", !.doc = pipes[r].doc, !.msg = msg, !.failedAt = failedAt]

Init ==
  /\ docs = [d \in DocIds |-> NoDoc]
  /\ chunks = {}
  /\ files = [p \in Paths |-> NoFile]
  /\ index = [k \in 1..NumIndexes |-> [v \in VecIds |-> NoVec]]
  /\ calls = {}
  /\ pipes = [r \in RunIds |-> NoPipe]
  /\ nextId = 1
  /\ nReq = 0
  /\ owner = [d \in DocIds |-> 0]
  /\ last = NoLast
  /\ input = NoInput
  /\ output = NoOutput

(***************************************************************************)
(* DocumentsService.uploadDocument                                         *)
(***************************************************************************)
\* fingerprint, dedup lookup; on a hit the ConflictException, otherwise the
\* file is written and the INSERT issued
UploadLookup(u, b) ==
  /\ last = NoLast
  /\ UNCHANGED <<input, output>>
  /\ IF FindByHash(Sha256(b)) # {}
     THEN /\ \E e \in FindByHash(Sha256(b)) : last' = Refused("upload", e, u, "conflict")
          /\ UNCHANGED <<docs, chunks, files, index, calls, pipes, nextId, nReq, owner>>
     ELSE /\ CanAccept
          /\ nextId <= MaxDocs
          /\ nextId = 1 => u = 1    \* users are interchangeable: the first is called 1
          /\ files' = [files EXCEPT ![OrigPath(nextId)] = b]
          /\ calls' = calls \cup {[Call("upload", "uSave", nReq + 1, u, nextId) EXCEPT !.bytes = b]}
          /\ nextId' = nextId + 1
          /\ nReq' = nReq + 1
          /\ last' = NoLast
          /\ UNCHANGED <<docs, chunks, index, pipes, owner>>

\* documentRepository.save(document): refused by the unique index, or the row
\* is inserted in status processing and processDocument is started detached
UploadSave(c) ==
  /\ last = NoLast
  /\ UNCHANGED <<input, output>>
  /\ c.pc = "uSave"
  /\ IF UniqueFileHashViolated(Sha256(c.bytes))
     THEN /\ calls' = calls \ {c}
          /\ last' = Outcome("upload", c.doc, c.user, "dbError", "none")
          /\ UNCHANGED <<docs, pipes, owner>>
     ELSE /\ docs' = [docs EXCEPT ![c.doc] =
                        [exists |-> TRUE, fileHash |-> Sha256(c.bytes),
                         status |-> "processing", errorMessage |-> NullMsg,
                         path |-> OrigPath(c.doc), textFilePath |-> NullPath,
                         assistantFileId |-> NullId, userId |-> c.user]]
          /\ pipes' = [pipes EXCEPT ![c.req] = [NoPipe EXCEPT !.pc = "find", !.doc = c.doc]]
          /\ calls' = (calls \ {c}) \cup {[c EXCEPT !.pc = "uReload", !.bytes = 0]}
          /\ owner' = [owner EXCEPT ![c.doc] = c.user]
          /\ last' = NoLast
  /\ UNCHANGED <<chunks, files, index, nextId, nReq>>

\* the reload by id and the return of the record to the caller
UploadReload(c) ==
  /\ last = NoLast
  /\ UNCHANGED <<input, output>>
  /\ c.pc = "uReload"
  /\ last' = Outcome("upload", c.doc, c.user, "ok",
                     IF docs[c.doc].exists THEN docs[c.doc].status ELSE "processing")
  /\ calls' = calls \ {c}
  /\ UNCHANGED <<docs, chunks, files, index, pipes, nextId, nReq, owner>>

(***************************************************************************)
(* DocumentsService.processDocument and the .catch handler of its caller   *)
(***************************************************************************)
\* findOne by id; NotFoundException when the row is gone; otherwise
\* parserService.parseFile is entered: existsSync and the read of the file
PipeFind(r) ==
  /\ last = NoLast
  /\ UNCHANGED <<input, output>>
  /\ pipes[r].pc = "find"
  /\ LET d == pipes[r].doc
     IN pipes' = [pipes EXCEPT ![r] =
          IF ~docs[d].exists THEN Fail(r, "Document not found", "early")
          ELSE IF files[docs[d].path] = NoFile THEN Fail(r, "File not found", "early")
          ELSE [@ EXCEPT !.pc = "parse", !.bytes = files[docs[d].path]]]
  /\ last' = NoLast
  /\ UNCHANGED <<docs, chunks, files, index, calls, nextId, nReq, owner>>

\* a registration whose error is not caught
registerWithAssistant_Rethrow(ok) == IF ok THEN "continue" ELSE "throw"

\* try { uploadFile } catch { log }: whether or not the registration with the
\* assistant succeeds, processDocument continues
registerWithAssistant(ok) == "continue"

\* the parser returns the text or throws; cleanTextLineBreaks; writeFileSync of
\* the text file succeeds or throws; pineconeAssistantService.uploadFile
\* returns an id or throws (swallowed: assistantFileId stays null); the update
\* documentRepository.update(documentId, { textFilePath, assistantFileId }) is issued
PipeParse(r) ==
  /\ last = NoLast
  /\ UNCHANGED <<input, output>>
  /\ pipes[r].pc = "parse"
  /\ \E outcome \in {"registered", "notRegistered", "parseFails", "writeFails"} :
       IF outcome \in {"registered", "notRegistered"}
       THEN /\ files' = [files EXCEPT ![TextPath(pipes[r].doc)] = pipes[r].bytes]
            /\ pipes' = [pipes EXCEPT ![r] =
                           IF registerWithAssistant(outcome = "registered") = "throw"
                           THEN Fail(r, "boom", "register")
                           ELSE [@ EXCEPT !.pc = "update",
                                          !.asst = IF outcome = "registered" THEN r ELSE NullId]]
       ELSE /\ pipes' = [pipes EXCEPT ![r] = Fail(r, "boom", "early")]
            /\ UNCHANGED files
  /\ last' = NoLast
  /\ UNCHANGED <<docs, chunks, index, calls, nextId, nReq, owner>>

\* the update of the two columns (null is written as null) succeeds or throws;
\* then splitIntoChunks (it touches no shared state), the records are built
\* and upsertVector issues the first upsertRecords
PipeUpdate(r) ==
  /\ last = NoLast
  /\ UNCHANGED <<input, output>>
  /\ pipes[r].pc = "update"
  /\ LET d == pipes[r].doc
     IN \/ /\ docs' = IF docs[d].exists
                      THEN [docs EXCEPT ![d].textFilePath = TextPath(d),
                                        ![d].assistantFileId = pipes[r].asst]
                      ELSE docs
           /\ \E o \in splitIntoChunks(pipes[r].bytes) :
                pipes' = [pipes EXCEPT ![r] =
                            IF o.threw THEN Fail(r, "boom", "chunking")
                            ELSE [@ EXCEPT !.pc = "upsert", !.asst = NullId, !.bytes = 0,
                                           !.chunks = o.list, !.k = 1]]
        \/ /\ pipes' = [pipes EXCEPT ![r] = Fail(r, "boom", "early")]
           /\ UNCHANGED docs
  /\ last' = NoLast
  /\ UNCHANGED <<chunks, files, index, calls, nextId, nReq, owner>>

\* a loop that logs the error of an index and goes on to the next one
upsertVectorLoop_Swallow(k, ok) ==
  IF k < NumIndexes THEN "next" ELSE "return"

\* PineconeService.upsertVector, the loop over the indexes: the error of an
\* index is rethrown, otherwise the next index is taken and after the last
\* one the ids are returned
upsertVectorLoop(k, ok) ==
  IF ~ok THEN "throw" ELSE IF k < NumIndexes THEN "next" ELSE "return"

\* PineconeService.upsertVector: upsertRecords on index k succeeds or throws;
\* after the last index the ids are returned and chunkRepository.save is issued
PipeUpsert(r) ==
  /\ last = NoLast
  /\ UNCHANGED <<input, output>>
  /\ pipes[r].pc = "upsert"
  /\ \E ok \in BOOLEAN :
       LET k == pipes[r].k
           o == upsertVectorLoop(k, ok)
       IN /\ index' = IF ok
                      THEN [index EXCEPT ![k] = UpsertRecords(@, pipes[r].doc, pipes[r].chunks)]
                      ELSE index
          /\ \/ /\ o = "throw"
                /\ \E m \in ExcMsgs : pipes' = [pipes EXCEPT ![r] = Fail(r, m, "upsert")]
             \/ /\ o = "next"
                /\ pipes' = [pipes EXCEPT ![r].k = k + 1]
             \/ /\ o = "return"
                /\ pipes' = [pipes EXCEPT ![r].pc = "saveChunks", ![r].k = 0]
  /\ last' = NoLast
  /\ UNCHANGED <<docs, chunks, files, calls, nextId, nReq, owner>>

\* a save that inserts row by row outside a transaction: a failure leaves
\* the rows inserted before it
PipeSaveChunks_RowByRow(r) ==
  /\ last = NoLast
  /\ UNCHANGED <<input, output>>
  /\ pipes[r].pc = "saveChunks"
  /\ LET d == pipes[r].doc
     IN \/ /\ docs[d].exists
           /\ chunks' = chunks \cup ChunkEntities(d, pipes[r].chunks, r)
           /\ pipes' = [pipes EXCEPT ![r].pc = "ready", ![r].chunks = <<>>]
        \/ /\ pipes' = [pipes EXCEPT ![r] = Fail(r, "boom", "persist")]
           /\ chunks' = IF docs[d].exists
                        THEN chunks \cup ChunkEntities(d, SubSeq(pipes[r].chunks, 1, 1), r)
                        ELSE chunks
  /\ last' = NoLast
  /\ UNCHANGED <<docs, files, index, calls, nextId, nReq, owner>>

\* chunkRepository.save(chunkEntities): one transaction; it throws, also when
\* the document row is gone (foreign key); updateDocumentStatus(ready) is issued
PipeSaveChunks(r) ==
  /\ last = NoLast
  /\ UNCHANGED <<input, output>>
  /\ pipes[r].pc = "saveChunks"
  /\ LET d == pipes[r].doc
     IN \/ /\ docs[d].exists
           /\ chunks' = chunks \cup ChunkEntities(d, pipes[r].chunks, r)
           /\ pipes' = [pipes EXCEPT ![r].pc = "ready", ![r].chunks = <<>>]
        \/ /\ pipes' = [pipes EXCEPT ![r] = Fail(r, "boom", "persist")]
           /\ UNCHANGED chunks
  /\ last' = NoLast
  /\ UNCHANGED <<docs, files, index, calls, nextId, nReq, owner>>

\* updateDocumentStatus(documentId, 'ready') takes effect or throws
PipeReady(r) ==
  /\ last = NoLast
  /\ UNCHANGED <<input, output>>
  /\ pipes[r].pc = "ready"
  /\ \/ /\ docs' = updateDocumentStatus(docs, pipes[r].doc, "ready", Undefined)
        /\ pipes' = [pipes EXCEPT ![r] = Done(r)]
     \/ /\ pipes' = [pipes EXCEPT ![r] = Fail(r, "boom", "status")]
        /\ UNCHANGED docs
  /\ last' = NoLast
  /\ UNCHANGED <<chunks, files, index, calls, nextId, nReq, owner>>

\* .catch((error) => { this.updateDocumentStatus(id, 'error', error.message) }):
\* the update is not awaited; it takes effect, or it rejects unobserved
PipeCatch(r) ==
  /\ last = NoLast
  /\ UNCHANGED <<input, output>>
  /\ pipes[r].pc = "catch"
  /\ \/ docs' = updateDocumentStatus(docs, pipes[r].doc, "error", pipes[r].msg)
     \/ UNCHANGED docs
  /\ pipes' = [pipes EXCEPT ![r] = Done(r)]
  /\ last' = NoLast
  /\ UNCHANGED <<chunks, files, index, calls, nextId, nReq, owner>>

(***************************************************************************)
(* DocumentsService.deleteDocument                                         *)
(***************************************************************************)
\* the fields of the loaded entity that deleteDocument reads later
DeleteSnap(row) ==
  [NoDoc EXCEPT !.exists = TRUE, !.path = row.path,
                !.textFilePath = row.textFilePath,
                !.assistantFileId = row.assistantFileId]

\* existsSync / unlinkSync of the original and of the text file of the entity
Unlink(fs, snap) ==
  [p \in Paths |->
     IF p = snap.path \/ (snap.textFilePath # NullPath /\ p = snap.textFilePath)
     THEN NoFile ELSE fs[p]]

\* getDocument(documentId, userId): NotFoundException, or the entity is loaded
\* and the assistant deleteFile (when a file id is set) or the chunk find is issued
DeleteGet(d, u) ==
  /\ last = NoLast
  /\ UNCHANGED <<input, output>>
  /\ IF ~getDocument(d, u)
     THEN /\ last' = Refused("delete", d, u, "notFound")
          /\ UNCHANGED <<docs, chunks, files, index, calls, pipes, nextId, nReq, owner>>
     ELSE /\ CanAccept
          /\ nReq' = nReq + 1
          /\ calls' = calls \cup
               {[Call("delete",
                      IF docs[d].assistantFileId # NullId THEN "dAssist" ELSE "dChunks",
                      nReq + 1, u, d) EXCEPT !.snap = DeleteSnap(docs[d]),
                                             !.quiet = (InFlight(d) = {})]}
          /\ last' = NoLast
          /\ UNCHANGED <<docs, chunks, files, index, pipes, nextId, owner>>

\* pineconeAssistantService.deleteFile succeeds or throws (swallowed); the
\* chunk find is issued
DeleteAssist(c) ==
  /\ last = NoLast
  /\ UNCHANGED <<input, output>>
  /\ c.pc = "dAssist"
  /\ calls' = (calls \ {c}) \cup {[c EXCEPT !.pc = "dChunks"]}
  /\ last' = NoLast
  /\ UNCHANGED <<docs, chunks, files, index, pipes, nextId, nReq, owner>>

\* the chunk rows are read; with ids deleteVectors issues the first deleteMany,
\* without ids the files are unlinked and documentRepository.delete is issued
DeleteChunks(c) ==
  /\ last = NoLast
  /\ UNCHANGED <<input, output>>
  /\ c.pc = "dChunks"
  /\ LET ids == {x.pineconeId : x \in ChunksOf(c.doc)}
     IN IF ids # {}
        THEN /\ calls' = (calls \ {c}) \cup {[c EXCEPT !.pc = "dVec", !.ids = ids, !.k = 1]}
             /\ UNCHANGED files
        ELSE /\ files' = Unlink(files, c.snap)
             /\ calls' = (calls \ {c}) \cup {[c EXCEPT !.pc = "dDb"]}
  /\ last' = NoLast
  /\ UNCHANGED <<docs, chunks, index, pipes, nextId, nReq, owner>>

\* what namespace.deleteMany(ids) of one index answers: done, a not-found
\* error of the remote service, or another error
DeleteReplies == {"ok", "notFound", "error"}

\* a loop that logs the error of an index and goes on to the next one
deleteVectorsLoop_Swallow(k, reply) ==
  IF k < NumIndexes THEN "next" ELSE "return"

\* PineconeService.deleteVectors, the loop over the indexes: any error of an
\* index, a not-found one included, is logged and rethrown; otherwise the next
\* index is taken and after the last one the method returns
deleteVectorsLoop(k, reply) ==
  IF reply # "ok" THEN "throw" ELSE IF k < NumIndexes THEN "next" ELSE "return"

\* PineconeService.deleteVectors with the answer of index k given: on "next"
\* the following index is taken, on "return" the files are unlinked and the
\* row delete is issued, on "throw" the request fails
DeleteVecOn(c, reply) ==
  /\ last = NoLast
  /\ UNCHANGED <<input, output>>
  /\ c.pc = "dVec"
  /\ LET step == deleteVectorsLoop(c.k, reply)
     IN IF step = "throw"
        THEN /\ calls' = calls \ {c}
             /\ last' = Outcome("delete", c.doc, c.user, "remoteError", "none")
             /\ UNCHANGED <<index, files>>
        ELSE /\ index' = [index EXCEPT ![c.k] = DeleteMany(@, c.ids)]
             /\ IF step = "next"
                THEN /\ calls' = (calls \ {c}) \cup {[c EXCEPT !.k = c.k + 1]}
                     /\ UNCHANGED files
                ELSE /\ calls' = (calls \ {c}) \cup {[c EXCEPT !.pc = "dDb", !.ids = {}, !.k = 0]}
                     /\ files' = Unlink(files, c.snap)
             /\ last' = NoLast
  /\ UNCHANGED <<docs, chunks, pipes, nextId, nReq, owner>>

\* PineconeService.deleteVectors: deleteMany on index k answers
DeleteVec(c) == \E reply \in DeleteReplies : DeleteVecOn(c, reply)

\* documentRepository.delete(documentId): the row and, by cascade, its chunks
DeleteDb(c) ==
  /\ last = NoLast
  /\ UNCHANGED <<input, output>>
  /\ c.pc = "dDb"
  /\ docs' = [docs EXCEPT ![c.doc] = NoDoc]
  /\ chunks' = chunks \ ChunksOf(c.doc)
  /\ last' = Outcome("delete", c.doc, c.user, "ok", "none")
  /\ calls' = calls \ {c}
  /\ UNCHANGED <<files, index, pipes, nextId, nReq, owner>>

(***************************************************************************)
(* DocumentsService.reprocessDocument                                      *)
(***************************************************************************)
\* getDocument: NotFoundException, or the entity is loaded; the chunk rows are
\* read and not used (the cleanup loop is commented out); document.status =
\* 'processing'; documentRepository.save(document) is issued
ReprocessGet(d, u) ==
  /\ last = NoLast
  /\ UNCHANGED <<input, output>>
  /\ IF ~getDocument(d, u)
     THEN /\ last' = Refused("reprocess", d, u, "notFound")
          /\ UNCHANGED <<docs, chunks, files, index, calls, pipes, nextId, nReq, owner>>
     ELSE /\ CanAccept
          /\ nReq' = nReq + 1
          /\ calls' = calls \cup
               {[Call("reprocess", "rSave", nReq + 1, u, d)
                   EXCEPT !.snap = [docs[d] EXCEPT !.status = "processing"]]}
          /\ last' = NoLast
          /\ UNCHANGED <<docs, chunks, files, index, pipes, nextId, owner>>

\* save(document) writes the loaded entity: an UPDATE of the row to the
\* entity's column values, or an INSERT when the row is gone (refused by the
\* unique index when the fingerprint is taken); then processDocument is
\* started detached and the entity returned
ReprocessSave(c) ==
  /\ last = NoLast
  /\ UNCHANGED <<input, output>>
  /\ c.pc = "rSave"
  /\ IF ~docs[c.doc].exists /\ UniqueFileHashViolated(c.snap.fileHash)
     THEN /\ last' = Outcome("reprocess", c.doc, c.user, "dbError", "none")
          /\ UNCHANGED <<docs, pipes>>
     ELSE /\ docs' = [docs EXCEPT ![c.doc] = c.snap]
          /\ pipes' = [pipes EXCEPT ![c.req] = [NoPipe EXCEPT !.pc = "find", !.doc = c.doc]]
          /\ last' = Outcome("reprocess", c.doc, c.user, "ok", c.snap.status)
  /\ calls' = calls \ {c}
  /\ UNCHANGED <<chunks, files, index, nextId, nReq, owner>>

(***************************************************************************)
(* Specification                                                           *)
(***************************************************************************)
\* the response of a completed request is delivered to its caller; the steps
\* of the model are taken between deliveries
Respond ==
  /\ last # NoLast
  /\ UNCHANGED <<input, output>>
  /\ last' = NoLast
  /\ UNCHANGED <<docs, chunks, files, index, calls, pipes, nextId, nReq, owner>>

Next ==
  \/ \E u \in Users, b \in Bytes : UploadLookup(u, b)
  \/ \E c \in calls : UploadSave(c)
  \/ \E c \in calls : UploadReload(c)
  \/ \E r \in RunIds : PipeFind(r)
  \/ \E r \in RunIds : PipeParse(r)
  \/ \E r \in RunIds : PipeUpdate(r)
  \/ \E r \in RunIds : PipeUpsert(r)
  \/ \E r \in RunIds : PipeSaveChunks(r)
  \/ \E r \in RunIds : PipeReady(r)
  \/ \E r \in RunIds : PipeCatch(r)
  \/ \E d \in 1..(nextId - 1), u \in Users : DeleteGet(d, u)
  \/ \E c \in calls : DeleteAssist(c)
  \/ \E c \in calls : DeleteChunks(c)
  \/ \E c \in calls : DeleteVec(c)
  \/ \E c \in calls : DeleteDb(c)
  \/ \E d \in 1..(nextId - 1), u \in Users : ReprocessGet(d, u)
  \/ \E c \in calls : ReprocessSave(c)
  \/ Respond

Spec == Init /\ [][Next]_vars

TypeOK ==
  /\ nextId \in 1..(MaxDocs + 1)
  /\ nReq \in 0..MaxRequests
  /\ \A d \in DocIds : docs[d].status \in {"none", "processing", "ready", "error"}

(***************************************************************************)
(* PineconeService.queryVectors, called on its own                         *)
(*                                                                         *)
(* A JavaScript string is a sequence of tokens; the empty sequence is the  *)
(* empty string, and a field that is missing is read like the empty one    *)
(* (both are falsy).                                                       *)
(***************************************************************************)
MaxHits == 2
MaxNum == 2

\* typeof indexName !== 'string': the marker of a name that is no string
NonString == "<non-string>"

\* the index names a request may carry: the two configured names, a name
\* that no configuration has, the name of a member that every object
\* literal inherits from Object.prototype, and a value that is no string
QueryNames == {"air-multy", "air", "other", "constructor", NonString}

\* the members an object literal inherits and that are truthy when read
ObjectPrototypeKeys == {"constructor"}

\* PINECONE_INDEX_URL / PINECONE_INDEX_URL_AIR of a configured index
UrlOf(name) == <<"url", name>>

\* indexes[key] reads undefined
NoEntry == [name |-> Undefined, url |-> Undefined]

\* the own keys of the `indexes` object: an index is added when its URL is set
OwnKeys(defaultUrl, airUrl) ==
  (IF defaultUrl THEN {Indexes[1]} ELSE {}) \cup (IF airUrl THEN {Indexes[2]} ELSE {})

\* indexes[key] of the object literal: the own entry; otherwise what the
\* prototype has under that key (Object.prototype.constructor is the function
\* Object, whose name is 'Object' and which has no url); otherwise undefined
indexesGet(defaultUrl, airUrl, key) ==
  IF key \in OwnKeys(defaultUrl, airUrl) THEN [name |-> key, url |-> UrlOf(key)]
  ELSE IF key \in ObjectPrototypeKeys THEN [name |-> "Object", url |-> Undefined]
  ELSE NoEntry

\* validIndexName, selectedIndex and the throw when nothing was selected
selectIndex(defaultUrl, airUrl, indexName) ==
  LET validIndexName == IF indexName # NonString THEN indexName ELSE Indexes[1]
      named == indexesGet(defaultUrl, airUrl, validIndexName)
      selectedIndex == IF named # NoEntry THEN named
                       ELSE indexesGet(defaultUrl, airUrl, Indexes[1])
  IN [threw |-> selectedIndex = NoEntry, target |-> selectedIndex]

\* the structured metadata processDocument builds for a chunk
Metadatas ==
  [documentId : {"d1", "d2"}, userId : {"u1", "u2"}, fileName : {"a.pdf"},
   fileType : {"pdf"}, chunkIndex : 0..(MaxNum - 1), totalChunks : 1..MaxNum,
   createdAt : {"t1"}]

MetadataKeys ==
  <<"documentId", "userId", "fileName", "fileType", "chunkIndex", "totalChunks", "createdAt">>

\* JSON.stringify of a value: a string in quotes, a number in digits
JsonValue(v, isNumber) == IF isNumber THEN <<ToString(v)>> ELSE <<"\"", v, "\"">>

\* JSON.stringify(metadata): the members in insertion order
JsonStringify(m) ==
  <<"{">>
  \o <<"documentId", ":">> \o JsonValue(m.documentId, FALSE) \o <<",">>
  \o <<"userId", ":">> \o JsonValue(m.userId, FALSE) \o <<",">>
  \o <<"fileName", ":">> \o JsonValue(m.fileName, FALSE) \o <<",">>
  \o <<"fileType", ":">> \o JsonValue(m.fileType, FALSE) \o <<",">>
  \o <<"chunkIndex", ":">> \o JsonValue(m.chunkIndex, TRUE) \o <<",">>
  \o <<"totalChunks", ":">> \o JsonValue(m.totalChunks, TRUE) \o <<",">>
  \o <<"createdAt", ":">> \o JsonValue(m.createdAt, FALSE)
  \o <<"}">>

\* a reader of digits that takes every number for 0
NumberOf_AlwaysZero(tok) == IF \E n \in 0..MaxNum : ToString(n) = tok THEN 0 ELSE -1

\* the number a token spells, or -1 when it spells none
NumberOf(tok) ==
  IF \E n \in 0..MaxNum : ToString(n) = tok
  THEN CHOOSE n \in 0..MaxNum : ToString(n) = tok
  ELSE -1

\* the position after the member that starts at position i of an object
\* text (key, colon, value, and a comma or the closing brace), 0 when no
\* member starts there
MemberEnd(s, i) ==
  IF i + 2 > Len(s) \/ s[i + 1] # ":" THEN 0
  ELSE IF s[i + 2] = "\""
       THEN IF i + 5 <= Len(s) /\ s[i + 4] = "\"" /\ s[i + 5] \in {",", "}"}
            THEN i + 6 ELSE 0
       ELSE IF NumberOf(s[i + 2]) >= 0 /\ i + 3 <= Len(s) /\ s[i + 3] \in {",", "}"}
            THEN i + 4 ELSE 0

\* the value of the member that starts at position i
MemberValue(s, i) == IF s[i + 2] = "\"" THEN s[i + 3] ELSE NumberOf(s[i + 2])

RECURSIVE MembersFrom(_, _)
\* the positions at which the members of an object text start, from position
\* i on; <<0>> at the end marks a text that is no object
MembersFrom(s, i) ==
  IF i = Len(s) + 1 /\ s[Len(s)] = "}" THEN <<>>
  ELSE IF i > Len(s) \/ MemberEnd(s, i) = 0 THEN <<0>>
  ELSE <<i>> \o MembersFrom(s, MemberEnd(s, i))

\* the value an object text has under a key (the last member of that key),
\* undefined when it has no such member
MemberOf(s, starts, key) ==
  LET at == {j \in 1..Len(starts) : s[starts[j]] = key}
  IN IF at = {} THEN Undefined
     ELSE MemberValue(s, starts[CHOOSE j \in at : \A j2 \in at : j2 <= j])

\* JSON.parse(categoryValue): a text that spells a number parses to the
\* number, an object text to the object with its members (read here under
\* the keys of the metadata); any other text, the empty one included, raises
\* a SyntaxError (ok = FALSE)
JsonParse(s) ==
  IF Len(s) = 1 /\ NumberOf(s[1]) >= 0
  THEN [ok |-> TRUE, kind |-> "number", value |-> NumberOf(s[1])]
  ELSE IF Len(s) >= 2 /\ s[1] = "{"
  THEN LET starts == MembersFrom(s, 2)
       IN IF starts # <<>> /\ starts[Len(starts)] = 0
          THEN [ok |-> FALSE, kind |-> "none", value |-> 0]
          ELSE [ok |-> TRUE, kind |-> "object",
                value |-> [documentId |-> MemberOf(s, starts, "documentId"),
                           userId |-> MemberOf(s, starts, "userId"),
                           fileName |-> MemberOf(s, starts, "fileName"),
                           fileType |-> MemberOf(s, starts, "fileType"),
                           chunkIndex |-> MemberOf(s, starts, "chunkIndex"),
                           totalChunks |-> MemberOf(s, starts, "totalChunks"),
                           createdAt |-> MemberOf(s, starts, "createdAt")]]
  ELSE [ok |-> FALSE, kind |-> "none", value |-> 0]

\* the fields of a record a search may return: a record of the pipeline
\* (the metadata as JSON in category), a record of an earlier version whose
\* category is a plain text, one without category, and one whose category
\* spells a number
ChunkText == <<"chunk text">>
StoredFields ==
  {[category |-> JsonStringify(m), text |-> ChunkText] : m \in Metadatas}
  \cup {[category |-> <<"manuals">>, text |-> ChunkText],
        [category |-> <<>>, text |-> ChunkText],
        [category |-> <<>>, text |-> <<>>],
        [category |-> <<"1">>, text |-> ChunkText]}

\* the callback of hits.map: category || text || '' is parsed; on a
\* SyntaxError the metadata is { documentId: categoryValue }
parseHit(fields) ==
  LET categoryValue == IF fields.category # <<>> THEN fields.category ELSE fields.text
      parsed == JsonParse(categoryValue)
  IN [synthesized |-> ~parsed.ok,
      metadata |-> IF parsed.ok THEN parsed.value ELSE [documentId |-> categoryValue],
      category |-> categoryValue,
      text |-> IF fields.text # <<>> THEN fields.text ELSE categoryValue]

\* queryVectors(text, indexName) when searchRecords on the selected index
\* returns the records `found`: the index is selected (or the Error is
\* thrown), a search on a target that is no configured index is rejected by
\* the remote service, the hits are mapped
queryVectors(defaultUrl, airUrl, indexName, found) ==
  LET sel == selectIndex(defaultUrl, airUrl, indexName)
      rejected == ~sel.threw /\ sel.target.url = Undefined
  IN [fn |-> "queryVectors",
      threw |-> sel.threw \/ rejected,
      target |-> sel.target,
      hits |-> IF sel.threw \/ rejected THEN <<>>
               ELSE [i \in 1..Len(found) |-> parseHit(found[i])]]

HitLists == UNION {[1..n -> StoredFields] : n \in 0..MaxHits}

\* a call of queryVectors with some configuration, name and index content
QueryInit ==
  /\ docs = [d \in DocIds |-> NoDoc]
  /\ chunks = {}
  /\ files = [p \in Paths |-> NoFile]
  /\ index = [k \in 1..NumIndexes |-> [v \in VecIds |-> NoVec]]
  /\ calls = {}
  /\ pipes = [r \in RunIds |-> NoPipe]
  /\ nextId = 1
  /\ nReq = 0
  /\ owner = [d \in DocIds |-> 0]
  /\ last = NoLast
  /\ input \in [fn : {"queryVectors"}, defaultUrl : BOOLEAN, airUrl : BOOLEAN,
                indexName : QueryNames, found : HitLists]
  /\ output = NoOutput

\* the call returns or throws
QueryVectors ==
  /\ input.fn = "queryVectors"
  /\ output = NoOutput
  /\ output' = queryVectors(input.defaultUrl, input.airUrl, input.indexName, input.found)
  /\ UNCHANGED <<docs, chunks, files, index, calls, pipes, nextId, nReq, owner, last, input>>

QueryNext == QueryVectors

QuerySpec == QueryInit /\ [][QueryNext]_vars

(***************************************************************************)
(* DocumentsService.semanticChunking, sentenceBasedChunking, getLastWords, *)
(* called on their own. A text is a sequence of characters.                *)
(***************************************************************************)
MaxTextLen == 6
MaxLastLen == 3

\* a letter, a blank, a line break, a full stop
Chars == {"a", " ", "\n", "."}
Texts == UNION {[1..n -> Chars] : n \in 0..MaxTextLen}

\* the chunk sizes and the overlap ratios (in hundredths) of the calls; the
\* pipeline calls with 1000 and 0.1
ChunkSizes == {3, 6}
OverlapPcts == {0, 50, 100}

\* \s of a regular expression
IsSpace(c) == c \in {" ", "\n"}

\* [.!?] of a regular expression
IsStop(c) == c \in {".", "!", "?"}

SetMin(S) == CHOOSE x \in S : \A y \in S : x <= y
SetMax(S) == CHOOSE x \in S : \A y \in S : y <= x

\* a trim that returns the text as it is
Trim_Nothing(s) == s

\* String.prototype.trim
Trim(s) ==
  LET inked == {i \in 1..Len(s) : ~IsSpace(s[i])}
  IN IF inked = {} THEN <<>> ELSE SubSeq(s, SetMin(inked), SetMax(inked))

\* the character classes of the regular expressions: \s, [.!?] and [^.!?]
InClass(class, c) ==
  CASE class = "space" -> IsSpace(c)
    [] class = "stop" -> IsStop(c)
    [] OTHER -> ~IsStop(c)

\* the last position of the run of characters of one class (space or not
\* space, stop or not stop) that starts at position i; i - 1 when the
\* character at i is not of the class
RunEnd(s, i, class) ==
  LET ends == {j \in i..Len(s) : \A k \in i..j : InClass(class, s[k])}
  IN IF ends = {} THEN i - 1 ELSE SetMax(ends)

\* where a match of /\n\s*\n/ that starts at position i ends (0: no match):
\* \s* is greedy and gives back until a line break follows
ParagraphBreakEnd(s, i) ==
  IF s[i] # "\n" THEN 0
  ELSE LET breaks == {j \in (i + 1)..RunEnd(s, i + 1, "space") : s[j] = "\n"}
       IN IF breaks = {} THEN 0 ELSE SetMax(breaks)

RECURSIVE SplitBlankLines(_, _, _)
\* text.split(/\n\s*\n/): the pieces of s from position start on, the scan
\* being at position i
SplitBlankLines(s, start, i) ==
  IF i > Len(s) THEN <<SubSeq(s, start, Len(s))>>
  ELSE IF ParagraphBreakEnd(s, i) > 0
       THEN <<SubSeq(s, start, i - 1)>>
            \o SplitBlankLines(s, ParagraphBreakEnd(s, i) + 1, ParagraphBreakEnd(s, i) + 1)
       ELSE SplitBlankLines(s, start, i + 1)

RECURSIVE SplitSpaces(_, _, _)
\* text.split(/\s+/)
SplitSpaces(s, start, i) ==
  IF i > Len(s) THEN <<SubSeq(s, start, Len(s))>>
  ELSE IF IsSpace(s[i])
       THEN <<SubSeq(s, start, i - 1)>>
            \o SplitSpaces(s, RunEnd(s, i, "space") + 1, RunEnd(s, i, "space") + 1)
       ELSE SplitSpaces(s, start, i + 1)

\* .map(p => p.trim()).filter(p => p.length > 0)
TrimmedNonEmpty(pieces) ==
  LET NonEmpty(p) == p # <<>>
  IN SelectSeq([i \in 1..Len(pieces) |-> Trim(pieces[i])], NonEmpty)

\* the paragraphs of a text
Paragraphs(text) == TrimmedNonEmpty(SplitBlankLines(text, 1, 1))

RECURSIVE SentencesFrom(_, _)
\* text.match(/[^.!?]+[.!?]+/g): the matches from position p on
SentencesFrom(s, p) ==
  LET NonStop(c) == ~IsStop(c)
      starts == {q \in p..Len(s) : NonStop(s[q])}
  IN IF starts = {} THEN <<>>
     ELSE LET q == SetMin(starts)
              e == RunEnd(s, q, "nonstop")
          IN IF e = Len(s) THEN <<>>
             ELSE <<SubSeq(s, q, RunEnd(s, e + 1, "stop"))>>
                  \o SentencesFrom(s, RunEnd(s, e + 1, "stop") + 1)

\* text.match(/[^.!?]+[.!?]+/g) || [text]
Sentences(text) ==
  IF SentencesFrom(text, 1) = <<>> THEN <<text>> ELSE SentencesFrom(text, 1)

\* text.slice(-maxLength): the last maxLength characters; slice(-0) is
\* slice(0), the whole text
SliceLast(text, maxLength) ==
  IF maxLength = 0 THEN text
  ELSE SubSeq(text, Len(text) - maxLength + 1, Len(text))

\* where the group (.+) of /[.!?]\s+(.+)$/ starts for the leftmost match in
\* s (0: no match): a stop, one or more spaces (greedy, giving back while
\* the rest is empty), then a rest without line break up to the end
SentenceTailStart(s) ==
  LET RestAt(i) ==
        {j \in (i + 2)..(RunEnd(s, i + 1, "space") + 1) :
           j <= Len(s) /\ \A k \in j..Len(s) : s[k] # "\n"}
      at == {i \in 1..Len(s) : IsStop(s[i]) /\ RestAt(i) # {}}
  IN IF at = {} THEN 0 ELSE SetMax(RestAt(SetMin(at)))

RECURSIVE WordsBack(_, _, _, _)
\* for (let i = words.length - 1; i >= 0; i--): words are prepended while
\* the result stays within maxLength
WordsBack(words, i, result, maxLength) ==
  IF i = 0 THEN result
  ELSE LET newResult == words[i] \o <<" ">> \o result
       IN IF Len(newResult) > maxLength THEN result
          ELSE WordsBack(words, i - 1, newResult, maxLength)

\* an overlap builder that hands back the whole text
getLastWords_WholeText(text, maxLength) == text

\* getLastWords(text, maxLength)
getLastWords(text, maxLength) ==
  IF Len(text) <= maxLength THEN text
  ELSE LET lastPart == SliceLast(text, maxLength)
           g == SentenceTailStart(lastPart)
       IN IF g > 0 THEN SubSeq(lastPart, g, Len(lastPart)) \o <<" ">>
          ELSE LET words == SplitSpaces(text, 1, 1)
               IN Trim(WordsBack(words, Len(words), <<>>, maxLength)) \o <<" ">>

\* a chunk that is pushed: the overlap context and the buffer it is made of
Pushed(previousContext, currentChunk) ==
  [context |-> previousContext, buffer |-> currentChunk]

RECURSIVE SentenceLoop(_, _, _, _, _, _, _)
\* the loop of sentenceBasedChunking over the sentences and the push of the
\* remaining buffer after it
SentenceLoop(sentences, i, currentChunk, previousContext, out, chunkSize, overlapSize) ==
  IF i > Len(sentences)
  THEN IF Trim(currentChunk) # <<>>
       THEN Append(out, Pushed(previousContext, currentChunk)) ELSE out
  ELSE LET trimmedSentence == Trim(sentences[i])
       IN IF Len(currentChunk \o trimmedSentence) > chunkSize /\ currentChunk # <<>>
          THEN SentenceLoop(sentences, i + 1, trimmedSentence \o <<" ">>,
                            getLastWords(currentChunk, overlapSize),
                            Append(out, Pushed(previousContext, currentChunk)),
                            chunkSize, overlapSize)
          ELSE SentenceLoop(sentences, i + 1, currentChunk \o trimmedSentence \o <<" ">>,
                            previousContext, out, chunkSize, overlapSize)

\* sentenceBasedChunking(text, chunkSize, overlapSize): the chunks pushed
sentenceBasedChunking(text, chunkSize, overlapSize) ==
  SentenceLoop(Sentences(text), 1, <<>>, <<>>, <<>>, chunkSize, overlapSize)

RECURSIVE ParagraphLoop(_, _, _, _, _, _, _)
\* the loop of semanticChunking over the paragraphs, the push for the last
\* paragraph included
ParagraphLoop(paragraphs, i, currentChunk, previousContext, out, chunkSize, overlapSize) ==
  IF i > Len(paragraphs) THEN out
  ELSE LET paragraph == paragraphs[i]
           full == Len(currentChunk \o paragraph) > chunkSize /\ Len(currentChunk) > 0
           out1 == IF full THEN Append(out, Pushed(previousContext, currentChunk)) ELSE out
           context1 == IF full THEN getLastWords(currentChunk, overlapSize)
                       ELSE previousContext
           chunk1 == IF full THEN paragraph \o <<"\n", "\n">>
                     ELSE currentChunk \o paragraph \o <<"\n", "\n">>
           out2 == IF i = Len(paragraphs) /\ Trim(chunk1) # <<>>
                   THEN Append(out1, Pushed(context1, chunk1)) ELSE out1
       IN ParagraphLoop(paragraphs, i + 1, chunk1, context1, out2, chunkSize, overlapSize)

\* Math.floor(chunkSize * overlapRatio), the ratio given in hundredths
OverlapSize(chunkSize, overlapPct) == (chunkSize * overlapPct) \div 100

\* semanticChunking(text, chunkSize, overlapRatio): the chunks pushed, by
\* paragraphs, and by sentences when no chunk was pushed and the text is not
\* empty
semanticChunkingPushed(text, chunkSize, overlapPct) ==
  LET overlapSize == OverlapSize(chunkSize, overlapPct)
      byParagraphs == ParagraphLoop(Paragraphs(text), 1, <<>>, <<>>, <<>>,
                                    chunkSize, overlapSize)
  IN IF byParagraphs = <<>> /\ Len(text) > 0
     THEN sentenceBasedChunking(text, chunkSize, overlapSize)
     ELSE byParagraphs

\* chunks.push(chunkWithContext.trim()): the strings returned
ChunkStrings(pushed) ==
  [i \in 1..Len(pushed) |-> Trim(pushed[i].context \o pushed[i].buffer)]

\* semanticChunking(text, chunkSize, overlapRatio)
semanticChunking(text, chunkSize, overlapPct) ==
  ChunkStrings(semanticChunkingPushed(text, chunkSize, overlapPct))

\* a call of semanticChunking or of getLastWords with some arguments
ChunkInit ==
  /\ docs = [d \in DocIds |-> NoDoc]
  /\ chunks = {}
  /\ files = [p \in Paths |-> NoFile]
  /\ index = [k \in 1..NumIndexes |-> [v \in VecIds |-> NoVec]]
  /\ calls = {}
  /\ pipes = [r \in RunIds |-> NoPipe]
  /\ nextId = 1
  /\ nReq = 0
  /\ owner = [d \in DocIds |-> 0]
  /\ last = NoLast
  /\ \/ input \in [fn : {"semanticChunking"}, text : Texts, chunkSize : ChunkSizes,
                   overlapPct : OverlapPcts, maxLength : {0}]
     \/ input \in [fn : {"getLastWords"}, text : Texts, chunkSize : {0},
                   overlapPct : {0}, maxLength : 0..MaxLastLen]
  /\ output = NoOutput

\* semanticChunking returns
SemanticChunking ==
  /\ input.fn = "semanticChunking"
  /\ output = NoOutput
  /\ output' = [fn |-> "semanticChunking",
                pushed |-> semanticChunkingPushed(input.text, input.chunkSize, input.overlapPct),
                value |-> semanticChunking(input.text, input.chunkSize, input.overlapPct)]
  /\ UNCHANGED <<docs, chunks, files, index, calls, pipes, nextId, nReq, owner, last, input>>

\* getLastWords returns
GetLastWords ==
  /\ input.fn = "getLastWords"
  /\ output = NoOutput
  /\ output' = [fn |-> "getLastWords", pushed |-> <<>>,
                value |-> getLastWords(input.text, input.maxLength)]
  /\ UNCHANGED <<docs, chunks, files, index, calls, pipes, nextId, nReq, owner, last, input>>

ChunkNext ==
  \/ SemanticChunking
  \/ GetLastWords

ChunkSpec == ChunkInit /\ [][ChunkNext]_vars

(***************************************************************************)
(* Claims                                                                  *)
(***************************************************************************)
RowsOfRun(tbl, r) == {c \in tbl : c.run = r}
VectorsOf(d) == {<<k, v>> \in (1..NumIndexes) \X VecIds : v[1] = d /\ index[k][v] # NoVec}

\* C1: an upload whose bytes have the fingerprint of an existing Document is
\* rejected with the duplicate-content conflict, the conflict names a Document
\* with that fingerprint, and the rejected upload changes no record, file,
\* vector or pipeline: the existing Document is as it was.
C1_DuplicateUploadRejected ==
  [][\A u \in Users, b \in Bytes :
       (UploadLookup(u, b) /\ \E d \in DocIds : docs[d].exists /\ docs[d].fileHash = Sha256(b))
       => /\ last'.op = "upload" /\ last'.result = "conflict"
          /\ docs[last'.doc].exists /\ docs[last'.doc].fileHash = Sha256(b)
          /\ docs' = docs /\ chunks' = chunks /\ files' = files /\ index' = index
          /\ calls' = calls /\ pipes' = pipes]_vars

\* C1 witness: a duplicate upload has just been rejected while the first
\* Document exists
C1_Witness ==
  last.op = "upload" /\ last.result = "conflict" /\ docs[last.doc].exists

\* C2: no two Document records carry the same non-null fingerprint.
C2_FingerprintUnique ==
  \A d1, d2 \in DocIds :
    (d1 # d2 /\ docs[d1].exists /\ docs[d2].exists /\ docs[d1].fileHash # NullHash)
    => docs[d1].fileHash # docs[d2].fileHash

\* C2 witness: two uploads of the same bytes both passed the dedup lookup; one
\* inserted its record, the other has just been refused by the unique index
C2_Witness ==
  /\ last.op = "upload" /\ last.result = "dbError"
  /\ \E d \in DocIds : docs[d].exists /\ d # last.doc

\* C3: the status of a Document changes only processing -> ready,
\* processing -> error, and ready or error -> processing by a reprocess request.
C3_StatusTransitions ==
  [][\A d \in DocIds :
       (docs[d].exists /\ docs'[d].exists /\ docs'[d].status # docs[d].status)
       => \/ docs[d].status = "processing" /\ docs'[d].status \in {"ready", "error"}
          \/ /\ docs[d].status \in {"ready", "error"} /\ docs'[d].status = "processing"
             /\ \E c \in calls : c.op = "reprocess" /\ c.doc = d /\ ReprocessSave(c)]_vars

\* C4 (as claimed): when a run of processDocument has ended in failure, at
\* whatever stage, no Chunk record created by that run exists.
C4_NoRowsOfFailedRun ==
  \A r \in RunIds : pipes[r].pc = "catch" => RowsOfRun(chunks, r) = {}

\* C4 (amended): Chunk records of a run are created only by the chunk
\* persistence of that run, after its upsert returned; a run that failed at any
\* stage up to and including chunk persistence has no Chunk record (only a
\* failure of the final status update leaves the records of the run).
C4_NoRowsUnlessPersisted ==
  [][\A r \in RunIds :
       /\ ~(RowsOfRun(chunks', r) \subseteq RowsOfRun(chunks, r))
            => pipes[r].pc = "saveChunks" /\ pipes'[r].pc = "ready"
       /\ (pipes'[r].pc = "catch" /\ pipes'[r].failedAt # "status")
            => RowsOfRun(chunks', r) = {}
       /\ pipes'[r].pc \in {"find", "parse", "update", "upsert", "saveChunks"}
            => RowsOfRun(chunks', r) = {}]_vars

\* C4 witness: a run failed after its vectors reached a remote index (the
\* upsert of a later index or the chunk persistence failed) and has no record
C4_Witness ==
  \E r \in RunIds :
    /\ pipes[r].pc = "catch" /\ pipes[r].failedAt \in {"upsert", "persist"}
    /\ RowsOfRun(chunks, r) = {}
    /\ VectorsOf(pipes[r].doc) # {}

\* C5: once the pipelines of a Document have ended, the Document is in status
\* ready or error; it does not stay in processing.
C5_EndsReadyOrError ==
  \A d \in DocIds :
    (docs[d].exists /\ InFlight(d) = {}) => docs[d].status \in {"ready", "error"}

\* the records of index k are those of a call for document d with list
HoldsItems(ix, d, list) ==
  \A i \in 1..Len(list) :
    ix[PineconeId(d, i - 1)] = [text |-> list[i], totalChunks |-> Len(list)]

C7_ReprocessReplaces ==
  [][\A r \in RunIds :
       (/\ pipes[r].pc = "ready" /\ pipes'[r].pc = "done" /\ docs'[pipes[r].doc].exists
        /\ \E r0 \in RunIds : r0 < r /\ pipes[r0].doc = pipes[r].doc /\ pipes[r0].pc = "done")
       => LET d == pipes[r].doc
          IN /\ \A c \in {x \in chunks' : x.documentId = d} : c.run = r
             /\ \A k \in 1..NumIndexes, v \in VecIds :
                  (v[1] = d /\ index'[k][v] # NoVec)
                  => \E c \in RowsOfRun(chunks', r) :
                       c.pineconeId = v /\ c.content = index'[k][v].text]_vars

\* C8: at most one pipeline execution is in flight for a Document.
C8_OnePipelinePerDocument ==
  \A d \in DocIds : Cardinality(InFlight(d)) <= 1

\* C9: when the last pipeline of a Document ends after the Document was
\* deleted, no Chunk record and no remote vector of the Document is left.
C9_DeleteDuringPipeline ==
  [][\A r \in RunIds :
       LET d == pipes[r].doc
       IN (pipes[r].pc \notin {"none", "done"} /\ pipes'[r].pc = "done"
           /\ ~docs'[d].exists /\ InFlight(d) = {r}
           /\ \A c \in calls' : c.doc # d)
          => /\ {c \in chunks' : c.documentId = d} = {}
             /\ \A k \in 1..NumIndexes, v \in VecIds : v[1] = d => index'[k][v] = NoVec]_vars

\* C10: a delete by the user the Document was created for raises no error
\* when the Document has already been deleted.
C10_DeleteIdempotent ==
  (last.op = "delete" /\ last.byOwner) => last.result # "notFound"

\* C11: when deleteDocument returns successfully for a Document that had no
\* pipeline in flight from the acceptance of the delete to its end, the
\* Document record and its Chunk records are gone, its original and its text
\* file are gone, and no index holds a vector with an identifier of the
\* Document.
C11_DeleteRemovesEverything ==
  [][\A c \in calls :
       (DeleteDb(c) /\ c.quiet /\ InFlight(c.doc) = {})
       => /\ ~docs'[c.doc].exists
          /\ {x \in chunks' : x.documentId = c.doc} = {}
          /\ files'[OrigPath(c.doc)] = NoFile /\ files'[TextPath(c.doc)] = NoFile
          /\ \A k \in 1..NumIndexes, v \in VecIds :
               v[1] = c.doc => index'[k][v] = NoVec]_vars

\* the Chunk records of the latest chunking pass of a Document
LatestRows(d) ==
  {c \in chunks : c.documentId = d /\ \A x \in chunks : x.documentId = d => x.run <= c.run}

\* C12: for every Document in status ready (and not being deleted), every
\* configured index holds, for every chunk of the latest chunking pass, the
\* vector with the identifier and the text of that chunk.
C12_ReplicationInvariant ==
  \A d \in DocIds :
    (/\ docs[d].exists /\ docs[d].status = "ready"
     /\ \A c \in calls : ~(c.op = "delete" /\ c.doc = d))
    => \A k \in 1..NumIndexes : \A c \in LatestRows(d) :
         index[k][c.pineconeId].text = c.content

\* C13: for every Chunk record (of a Document that is not being deleted) at
\* least one configured index holds a vector whose identifier is the
\* pineconeId of the record and whose text is its content.
C13_ChunkHasVector ==
  \A c \in chunks :
    (\A x \in calls : ~(x.op = "delete" /\ x.doc = c.documentId))
    => \E k \in 1..NumIndexes : index[k][c.pineconeId].text = c.content

\* C14: the Chunk records of a Document have pairwise distinct sequence
\* indices that form the range 0..n-1 (n the number of the records), and no
\* two Chunk records share an external identifier.
C14_ChunkIndicesDense ==
  /\ \A d \in DocIds :
       LET rows == {c \in chunks : c.documentId = d}
       IN /\ \A c1, c2 \in rows : c1 # c2 => c1.chunkIndex # c2.chunkIndex
          /\ {c.chunkIndex : c \in rows} = 0..(Cardinality(rows) - 1)
  /\ \A c1, c2 \in chunks : c1 # c2 => c1.pineconeId # c2.pineconeId

\* C15: a Document in status error has a non-empty error message.
C15_ErrorHasMessage ==
  \A d \in DocIds :
    (docs[d].exists /\ docs[d].status = "error")
    => docs[d].errorMessage \notin {NullMsg, ""}

\* C16: a Document in status ready has its extracted-text path set, and a
\* run that has started chunking finds the text file of its Document written
\* (unless a delete of the Document is under way).
C16_ReadyHasTextPath ==
  /\ \A d \in DocIds :
       (docs[d].exists /\ docs[d].status = "ready") => docs[d].textFilePath # NullPath
  /\ \A r \in RunIds :
       (/\ pipes[r].pc \in {"upsert", "saveChunks", "ready"}
        /\ docs[pipes[r].doc].exists
        /\ \A c \in calls : ~(c.op = "delete" /\ c.doc = pipes[r].doc))
       => files[TextPath(pipes[r].doc)] # NoFile

\* C17: the record that an accepted uploadDocument or reprocessDocument
\* returns to its caller has status processing.
C17_ReturnsProcessing ==
  (last.op \in {"upload", "reprocess"} /\ last.result = "ok") => last.status = "processing"

\* C18: a failing registration with the assistant does not fail the run: the
\* run goes on to the update, which writes a null assistantFileId and leaves
\* the status alone, and from then on the run does not depend on the outcome
\* of the registration (it goes to the upsert with the same local state).
C18_RegistrationFailureSwallowed ==
  [][\A r \in RunIds :
       LET d == pipes[r].doc
       IN /\ pipes'[r].failedAt # "register"
          /\ (pipes[r].pc = "parse" /\ pipes'[r].pc # "parse" /\ pipes'[r].pc # "catch")
               => pipes'[r].pc = "update" /\ files'[TextPath(d)] # NoFile
          /\ (pipes[r].pc = "update" /\ pipes'[r].pc = "upsert")
               => /\ pipes'[r].asst = NullId
                  /\ docs[d].exists
                       => /\ docs'[d].assistantFileId = pipes[r].asst
                          /\ docs'[d].status = docs[d].status]_vars

\* C18 witness: a run whose registration failed has ended in ready with the
\* assistantFileId of the Document null
C18_Witness ==
  \E r \in RunIds :
    /\ pipes[r].pc = "done" /\ docs[pipes[r].doc].exists
    /\ docs[pipes[r].doc].status = "ready"
    /\ docs[pipes[r].doc].assistantFileId = NullId
    /\ docs[pipes[r].doc].textFilePath # NullPath

\* C19: when the Gemini call fails, splitIntoChunks returns the list of the
\* fallback semanticChunking and raises nothing: no run fails in chunking, and
\* a run that leaves chunking carries the Gemini list or the fallback list of
\* its text.
C19_ChunkingFallback ==
  /\ \A b \in Bytes :
       /\ ~splitIntoChunksOn(b, FALSE).threw
       /\ splitIntoChunksOn(b, FALSE).list = FallbackChunks(b)
  /\ \A r \in RunIds :
       /\ pipes[r].failedAt # "chunking"
       /\ pipes[r].pc = "upsert"
            => \E b \in Bytes : pipes[r].chunks \in {GeminiChunks(b), FallbackChunks(b)}

\* C19 witness: a run whose Gemini call failed has persisted the chunks of the
\* fallback and ended in ready
C19_Witness ==
  \E r \in RunIds :
    /\ pipes[r].pc = "done" /\ docs[pipes[r].doc].exists
    /\ docs[pipes[r].doc].status = "ready"
    /\ \E c \in RowsOfRun(chunks, r) : c.content[1] = "manual"

\* C20: when deleteMany reports not-found on one of the configured indexes,
\* deleteVectors still removes the identifiers from every other configured
\* index and completes without error: the request goes on (no error response),
\* and it leaves deleteVectors only with its identifiers gone from every index
\* other than the reporting one.
C20_DeleteToleratesNotFound ==
  [][\A c \in calls :
       DeleteVecOn(c, "notFound")
         => /\ last' = NoLast
            /\ \E c2 \in calls' :
                 /\ c2.req = c.req
                 /\ c2.pc = "dDb"
                      => \A k \in 1..NumIndexes \ {c.k} : \A v \in c.ids :
                           index'[k][v] = NoVec]_vars

\* C21: queryVectors searches the configured index that has the requested
\* name when there is one, and otherwise the default index; with the default
\* index configured, a name that is not recognized or is no string never
\* makes the call fail.
C21_IndexSelection ==
  output.fn = "queryVectors" =>
    LET own == OwnKeys(input.defaultUrl, input.airUrl)
    IN /\ input.indexName \in own
            => /\ ~output.threw
               /\ output.target = [name |-> input.indexName, url |-> UrlOf(input.indexName)]
       /\ (input.indexName \notin own /\ Indexes[1] \in own)
            => /\ ~output.threw
               /\ output.target = [name |-> Indexes[1], url |-> UrlOf(Indexes[1])]

RECURSIVE JoinParagraphs(_)
\* the paragraphs, one empty line between two of them
JoinParagraphs(ps) ==
  IF ps = <<>> THEN <<>>
  ELSE IF Len(ps) = 1 THEN ps[1]
  ELSE ps[1] \o <<"\n", "\n">> \o JoinParagraphs(Tail(ps))

\* every run of white space of the trimmed text that holds two or more line
\* breaks is exactly one empty line
CanonicalBreaks(text) ==
  LET t == Trim(text)
  IN \A i \in 1..Len(t) :
       (IsSpace(t[i]) /\ (i = 1 \/ ~IsSpace(t[i - 1])))
       => LET e == RunEnd(t, i, "space")
          IN Cardinality({j \in i..e : t[j] = "\n"}) >= 2 => (e = i + 1)

\* C23 as claimed: for every non-empty text shorter than the target size,
\* semanticChunking returns exactly one chunk, equal to the trimmed text and
\* without overlap context.
C23_ShortTextOneChunk ==
  (output.fn = "semanticChunking" /\ Len(input.text) > 0
     /\ Len(input.text) < input.chunkSize)
  => /\ Len(output.value) = 1
     /\ output.value[1] = Trim(input.text)
     /\ output.pushed[1].context = <<>>

\* C23 as amended: for every text shorter than the target size that holds a
\* character other than white space, semanticChunking returns exactly one
\* chunk without overlap context; the chunk is the paragraphs of the text
\* joined by one empty line, which is the trimmed text when every paragraph
\* break of the text is exactly one empty line; a text of white space only
\* yields no chunk.
C23_ShortTextOneNormalizedChunk ==
  (output.fn = "semanticChunking" /\ Len(input.text) > 0
     /\ Len(input.text) < input.chunkSize)
  => IF Trim(input.text) = <<>> THEN output.value = <<>>
     ELSE /\ Len(output.value) = 1
          /\ output.pushed[1].context = <<>>
          /\ output.value[1] = JoinParagraphs(Paragraphs(input.text))
          /\ CanonicalBreaks(input.text) => output.value[1] = Trim(input.text)

\* C23 witness: a short text of two paragraphs with more than one empty line
\* between them came back as one chunk that differs from the trimmed text
C23_Witness ==
  /\ output.fn = "semanticChunking"
  /\ Len(input.text) > 0 /\ Len(input.text) < input.chunkSize
  /\ Len(Paragraphs(input.text)) = 2
  /\ Len(output.value) = 1
  /\ output.value[1] # Trim(input.text)

\* the words of a text
WordsOf(s) ==
  LET NonEmpty(w) == w # <<>>
  IN SelectSeq(SplitSpaces(s, 1, 1), NonEmpty)

IsSuffixSeq(a, b) == Len(a) <= Len(b) /\ SubSeq(b, Len(b) - Len(a) + 1, Len(b)) = a
IsPrefixSeq(a, b) == Len(a) <= Len(b) /\ SubSeq(b, 1, Len(a)) = a

\* the overlap of every chunk after the first is within the bound, is made
\* of the trailing words of the buffer of the chunk before, and begins the chunk
OverlapWithin(bound) ==
  \A i \in 2..Len(output.pushed) :
    /\ Len(output.pushed[i].context) <= bound
    /\ IsSuffixSeq(WordsOf(output.pushed[i].context), WordsOf(output.pushed[i - 1].buffer))
    /\ IsPrefixSeq(WordsOf(output.pushed[i].context), WordsOf(output.value[i]))

NoBlankLine(text) == \A i \in 1..Len(text) : ParagraphBreakEnd(text, i) = 0

\* C25: for every non-empty text without a blank-line paragraph boundary,
\* semanticChunking returns the chunks of the sentence-based chunking, so a
\* text longer than S that is made of several sentences yields more than one
\* chunk.
C25_SentenceFallback ==
  (output.fn = "semanticChunking" /\ Len(input.text) > 0 /\ NoBlankLine(input.text))
  => /\ output.value = ChunkStrings(sentenceBasedChunking(input.text, input.chunkSize,
                            OverlapSize(input.chunkSize, input.overlapPct)))
     /\ (Len(input.text) > input.chunkSize /\ Len(SentencesFrom(input.text, 1)) >= 2)
          => Len(output.value) > 1

\* C26: the order of the chunks is kept from chunking to persistence: when
\* a run saves the rows of its chunk sequence c_0..c_(n-1), it adds exactly
\* one row for every i, and that row has sequence index i, content c_i and
\* the identifier under which the run upserted c_i.
C26_ChunkOrderPreserved ==
  [][\A r \in RunIds :
       (PipeSaveChunks(r) /\ pipes'[r].pc = "ready")
       => LET d == pipes[r].doc
              list == pipes[r].chunks
              upserted == UpsertRecords(index[1], d, list)
          IN /\ chunks' \ chunks = RowsOfRun(chunks', r)
             /\ Cardinality(RowsOfRun(chunks', r)) = Len(list)
             /\ \A i \in 0..(Len(list) - 1) :
                  \E row \in RowsOfRun(chunks', r) :
                    /\ row.documentId = d
                    /\ row.chunkIndex = i
                    /\ row.content = list[i + 1]
                    /\ row.pineconeId = PineconeId(d, i)
                    /\ upserted[row.pineconeId].text = list[i + 1]]_vars

\* C26 witness: a run has saved the rows of a sequence of two chunks
C26_Witness ==
  \E r \in RunIds :
    /\ pipes[r].pc = "ready"
    /\ Cardinality(RowsOfRun(chunks, r)) = 2
    /\ \E c1, c2 \in RowsOfRun(chunks, r) :
         c1.chunkIndex = 0 /\ c2.chunkIndex = 1 /\ c1.content # c2.content

\* C27: a Document whose status is ready or processing carries no error
\* message: the message of an earlier failure is cleared when the Document
\* is reprocessed.
C27_NoMessageUnlessError ==
  \A d \in DocIds :
    (docs[d].exists /\ docs[d].status \in {"ready", "processing"})
    => docs[d].errorMessage = NullMsg

\* C28: a rejected duplicate upload has no side effect: whether it is
\* refused by the dedup lookup or by the unique index at the insert, no
\* Document record of it exists, no backing file of it is in the upload
\* directory and no pipeline was started for it.
C28_RejectedDuplicateNoEffect ==
  [][/\ \A u \in Users, b \in Bytes :
          (UploadLookup(u, b) /\ last'.result = "conflict")
          => /\ \A d \in DocIds : docs'[d].exists = docs[d].exists
             /\ \A q \in Paths : (files[q] = NoFile) = (files'[q] = NoFile)
             /\ \A r \in RunIds : pipes'[r].pc = pipes[r].pc
     /\ \A c \in calls :
          (UploadSave(c) /\ last'.result = "dbError")
          => /\ ~docs'[c.doc].exists
             /\ files'[OrigPath(c.doc)] = NoFile
             /\ pipes'[c.req].pc = "none"]_vars

\* C29: deleteDocument and reprocessDocument called for an existing Document
\* by a user who is not its owner fail with not-found and change nothing:
\* the records, the Chunk records, the files and the remote indexes are as
\* they were, no request is left in flight and no pipeline is started.
C29_NonOwnerRefused ==
  [][\A d \in DocIds, u \in Users :
       ((DeleteGet(d, u) \/ ReprocessGet(d, u)) /\ docs[d].exists /\ docs[d].userId # u)
       => /\ last'.result = "notFound"
          /\ docs' = docs /\ chunks' = chunks /\ files' = files /\ index' = index
          /\ calls' = calls /\ pipes' = pipes]_vars

\* C29 witness: a delete or reprocess of the existing Document by a user
\* other than its owner has just been refused with not-found
C29_Witness ==
  /\ last.op \in {"delete", "reprocess"}
  /\ last.result = "notFound"
  /\ ~last.byOwner
  /\ nextId = 2
  /\ docs[1].exists

\* C30: when the remote vector deletion fails during deleteDocument, the
\* request fails and the failing step removes nothing: the Document records,
\* the Chunk records and the files are as they were; and, no other delete of
\* the Document being under way, the record, both local files and the Chunk
\* records with the identifiers the request was removing are still there, so
\* that a later delete removes the same identifiers.
C30_FailedVectorDeleteKeepsAll ==
  [][\A c \in calls : \A reply \in DeleteReplies \ {"ok"} :
       DeleteVecOn(c, reply)
       => /\ last'.op = "delete" /\ last'.result = "remoteError"
          /\ docs' = docs /\ chunks' = chunks /\ files' = files
          /\ (/\ docs[c.doc].exists
              /\ \A c2 \in calls \ {c} : c2.doc # c.doc \/ c2.op # "delete")
               => /\ docs'[c.doc].exists
                  /\ files'[OrigPath(c.doc)] # NoFile
                  /\ files'[TextPath(c.doc)] # NoFile
                  /\ {x.pineconeId : x \in {y \in chunks' : y.documentId = c.doc}} = c.ids]_vars

\* C30 witness: a delete has just failed in the remote vector deletion and
\* the Document, its Chunk records and its files are there
C30_Witness ==
  /\ last.op = "delete" /\ last.result = "remoteError"
  /\ docs[last.doc].exists
  /\ ChunksOf(last.doc) # {}
  /\ files[OrigPath(last.doc)] # NoFile
  /\ files[TextPath(last.doc)] # NoFile

====
